---- MODULE Spec2Model ----
(***************************************************************************)
(* Model of do_release.py: the release script of kotlin-datastore.         *)
(*                                                                         *)
(* Strings are sequences of one-character strings, so that the regular     *)
(* expression VERSION_RE, re.sub, str.split, int() and str() are computed  *)
(* character by character as Python computes them.  The working tree is    *)
(* the sequence of build.gradle.kts files in os.walk order.  External      *)
(* commands (git, ./gradlew) either exit with status 0 or with a nonzero   *)
(* status; their effect on the repository is not modelled beyond the log   *)
(* of the commands that were executed.                                     *)
(***************************************************************************)
EXTENDS Integers, Sequences, FiniteSets, TLC

VARIABLES files, pc, version, auditors, dry_run, next_version,
          cmd_i, cmds, out, err, runs, files0, tagged

vars == <<files, pc, version, auditors, dry_run, next_version,
          cmd_i, cmds, out, err, runs, files0, tagged>>

\* Number of do_release invocations made on the same working tree.
MaxRuns == 2

-----------------------------------------------------------------------------
(* Characters and strings *)

QUOTE == "\""
NL == "\n"
DIGITS == <<"0", "1", "2", "3", "4", "5", "6", "7", "8", "9">>

\* The literal part of VERSION_RE up to and including the opening quote.
VERSION_PREFIX == <<"v", "e", "r", "s", "i", "o", "n", " ", "=", " ", "\"">>

PRE_MARK == <<"-", "p", "r", "e">>

\* s[i..] starts with p
HasPrefixAt(s, i, p) ==
    /\ i >= 1
    /\ i + Len(p) - 1 <= Len(s)
    /\ \A k \in 1..Len(p) : s[i + k - 1] = p[k]

\* Index of the first occurrence of p in s, 0 when there is none.
Find(s, p) ==
    LET hits == {i \in 1..Len(s) : HasPrefixAt(s, i, p)}
    IN  IF hits = {} THEN 0 ELSE CHOOSE i \in hits : \A j \in hits : i <= j

\* Index of the first character c at or after position j, 0 when none.
NextChar(s, j, c) ==
    LET hits == {k \in j..Len(s) : s[k] = c}
    IN  IF hits = {} THEN 0 ELSE CHOOSE k \in hits : \A l \in hits : k <= l

\* VERSION_RE = ^version = "([^"]+)" with re.MULTILINE, tried at position i:
\* the index of the closing quote of the match, 0 when there is no match at i.
\* ^ matches at the start of the string and right after a newline; [^"]+
\* takes at least one character, newlines included, up to the next quote.
VERSION_RE_match(s, i) ==
    IF /\ (i = 1 \/ (i > 1 /\ i - 1 <= Len(s) /\ s[i - 1] = NL))
       /\ HasPrefixAt(s, i, VERSION_PREFIX)
    THEN LET q == NextChar(s, i + Len(VERSION_PREFIX), QUOTE)
         IN  IF q > i + Len(VERSION_PREFIX) THEN q ELSE 0
    ELSE 0

\* VERSION_RE.search(s): the position of the leftmost match, 0 when none.
VERSION_RE_search(s) ==
    LET hits == {i \in 1..Len(s) : VERSION_RE_match(s, i) # 0}
    IN  IF hits = {} THEN 0 ELSE CHOOSE i \in hits : \A j \in hits : i <= j

\* VERSION_RE.sub(repl, s) from position i on: every non-overlapping match,
\* leftmost first, is replaced by repl.
RECURSIVE VERSION_RE_sub_from(_, _, _)
VERSION_RE_sub_from(repl, s, i) ==
    IF i > Len(s) THEN <<>>
    ELSE LET q == VERSION_RE_match(s, i)
         IN  IF q # 0
             THEN repl \o VERSION_RE_sub_from(repl, s, q + 1)
             ELSE <<s[i]>> \o VERSION_RE_sub_from(repl, s, i + 1)

VERSION_RE_sub(repl, s) == VERSION_RE_sub_from(repl, s, 1)

\* f.readlines(): the lines of s, each with its terminating newline.
RECURSIVE readlines(_)
readlines(s) ==
    IF s = <<>> THEN <<>>
    ELSE LET n == NextChar(s, 1, NL)
         IN  IF n = 0 THEN <<s>>
             ELSE <<SubSeq(s, 1, n)>> \o readlines(SubSeq(s, n + 1, Len(s)))

\* str.split(sep) for a one-character separator.
RECURSIVE split(_, _)
split(s, sep) ==
    LET n == NextChar(s, 1, sep)
    IN  IF n = 0 THEN <<s>>
        ELSE <<SubSeq(s, 1, n - 1)>> \o split(SubSeq(s, n + 1, Len(s)), sep)

\* sep.join(parts)
RECURSIVE join(_, _)
join(parts, sep) ==
    IF parts = <<>> THEN <<>>
    ELSE IF Len(parts) = 1 THEN parts[1]
    ELSE parts[1] \o <<sep>> \o join(Tail(parts), sep)

IsDigit(c) == \E d \in 1..10 : DIGITS[d] = c
DigitValue(c) == (CHOOSE d \in 1..10 : DIGITS[d] = c) - 1

IsSpace(c) == c \in {" ", NL}

\* str.strip() of whitespace, as int() does before parsing.
RECURSIVE strip(_)
strip(s) ==
    IF s = <<>> THEN s
    ELSE IF IsSpace(s[1]) THEN strip(Tail(s))
    ELSE IF IsSpace(s[Len(s)]) THEN strip(SubSeq(s, 1, Len(s) - 1))
    ELSE s

RECURSIVE DigitsValue(_)
DigitsValue(s) ==
    IF s = <<>> THEN 0
    ELSE 10 * DigitsValue(SubSeq(s, 1, Len(s) - 1)) + DigitValue(s[Len(s)])

\* int(s) raises ValueError unless s is an optional sign and at least one
\* decimal digit, surrounding whitespace ignored.  (Digit-group underscores
\* are not in the alphabet of the model.)
int_body(s) ==
    LET t == strip(s)
    IN  IF t # <<>> /\ t[1] \in {"-", "+"} THEN Tail(t) ELSE t

int_raises(s) ==
    LET body == int_body(s)
    IN  body = <<>> \/ \E k \in 1..Len(body) : ~IsDigit(body[k])

\* int(s) for a string on which it does not raise.
int(s) ==
    LET t == strip(s)
    IN  IF t[1] = "-" THEN 0 - DigitsValue(int_body(s))
        ELSE DigitsValue(int_body(s))

\* str(n) for an integer n.
RECURSIVE NatStr(_)
NatStr(n) ==
    IF n < 10 THEN <<DIGITS[n + 1]>>
    ELSE NatStr(n \div 10) \o <<DIGITS[(n % 10) + 1]>>

str(n) == IF n < 0 THEN <<"-">> \o NatStr(0 - n) ELSE NatStr(n)

-----------------------------------------------------------------------------
(* Versions *)

\* re.sub(r'-pre.*', '', version): "." does not match a newline, so each
\* -pre marker is removed together with the rest of its line.
RECURSIVE strip_pre(_)
strip_pre(v) ==
    LET p == Find(v, PRE_MARK)
    IN  IF p = 0 THEN v
        ELSE LET n == NextChar(v, p, NL)
             IN  IF n = 0 THEN SubSeq(v, 1, p - 1)
                 ELSE SubSeq(v, 1, p - 1) \o strip_pre(SubSeq(v, n, Len(v)))

\* version_ints(version) raises ValueError when some component is not an
\* integer.
version_ints_raises(v) ==
    LET parts == split(strip_pre(v), ".")
    IN  \E k \in 1..Len(parts) : int_raises(parts[k])

\* version_ints(version) for a version on which it does not raise.
version_ints(v) ==
    LET parts == split(strip_pre(v), ".")
    IN  [k \in 1..Len(parts) |-> int(parts[k])]

\* Python's a < b on lists of integers.
RECURSIVE list_lt(_, _)
list_lt(a, b) ==
    IF b = <<>> THEN FALSE
    ELSE IF a = <<>> THEN TRUE
    ELSE IF a[1] # b[1] THEN a[1] < b[1]
    ELSE list_lt(Tail(a), Tail(b))

\* Python's a <= b on lists of integers.
list_le(a, b) == a = b \/ list_lt(a, b)

\* '-pre' in version
has_pre(v) == Find(v, PRE_MARK) # 0

-----------------------------------------------------------------------------
(* Version store *)

\* get_version_from_build raises VersionParsingError: no line of the file
\* matches VERSION_RE.
get_version_raises(contents) ==
    LET lines == readlines(contents)
    IN  \A k \in 1..Len(lines) : VERSION_RE_search(lines[k]) = 0

\* get_version_from_build: group 1 of the match in the first matching line.
get_version_from_build(contents) ==
    LET lines == readlines(contents)
        k == CHOOSE i \in 1..Len(lines) :
                 /\ VERSION_RE_search(lines[i]) # 0
                 /\ \A j \in 1..(i - 1) : VERSION_RE_search(lines[j]) = 0
        line == lines[k]
        i == VERSION_RE_search(line)
    IN  SubSeq(line, i + Len(VERSION_PREFIX), VERSION_RE_match(line, i) - 1)

\* build_filenames(): the names of the build files, in os.walk order.
build_filenames(tree) == [k \in 1..Len(tree) |-> tree[k].name]

\* inconsistent with "!= 1" replaced by "== 0".
inconsistent_only_empty(versions) ==
    Cardinality({versions[k] : k \in 1..Len(versions)}) = 0

\* len(set(versions)) != 1
inconsistent(versions) ==
    Cardinality({versions[k] : k \in 1..Len(versions)}) # 1

\* version_ok with the strict comparison in both branches.
version_ok_always_strict(old_version, new_version) ==
    list_lt(version_ints(old_version), version_ints(new_version))

\* version_ok with the non-strict comparison in both branches.
version_ok_never_strict(old_version, new_version) ==
    list_le(version_ints(old_version), version_ints(new_version))

\* version_ok of set_version, for versions on which version_ints does not
\* raise.
version_ok(old_version, new_version) ==
    IF has_pre(old_version)
    THEN list_le(version_ints(old_version), version_ints(new_version))
    ELSE list_lt(version_ints(old_version), version_ints(new_version))

\* replacement without the closing quote.
replacement_unclosed(new_version) == VERSION_PREFIX \o new_version

\* The replacement text f'version = "{version}"'.  (A backslash, which
\* re.sub would expand in the replacement, is not in the alphabet of the
\* model.)
replacement(new_version) == VERSION_PREFIX \o new_version \o <<QUOTE>>

\* The contents set_version computes for one file.
new_contents(contents, new_version) ==
    VERSION_RE_sub(replacement(new_version), contents)

\* What set_version prints in dry-run mode, one entry per file.
would_set(tree, new_version) ==
    [k \in 1..Len(tree) |->
        [print |-> "Would set contents of", filename |-> tree[k].name,
         contents |-> new_contents(tree[k].contents, new_version)]]

\* The working tree after the write loop of set_version.
written(tree, new_version) ==
    [k \in 1..Len(tree) |->
        [name |-> tree[k].name,
         contents |-> new_contents(tree[k].contents, new_version)]]

\* set_version(version, dry_run) on a working tree: the exception raised
\* ("none" when it returns), the tree it leaves and the lines it prints.
set_version(tree, new_version, dry) ==
    LET unchanged(e) == [err |-> e, files |-> tree, out |-> <<>>]
        versions == [k \in 1..Len(tree) |->
                        get_version_from_build(tree[k].contents)]
    IN  IF \E k \in 1..Len(tree) : get_version_raises(tree[k].contents)
        THEN unchanged("VersionParsingError")
        ELSE IF inconsistent(versions)
        THEN unchanged("InvalidVersionError")
        ELSE IF version_ints_raises(versions[1])
                \/ version_ints_raises(new_version)
        THEN unchanged("ValueError")
        ELSE IF ~version_ok(versions[1], new_version)
        THEN unchanged("InvalidVersionError")
        ELSE IF dry
        THEN [err |-> "none", files |-> tree,
              out |-> would_set(tree, new_version)]
        ELSE [err |-> "none", files |-> written(tree, new_version),
              out |-> <<>>]

-----------------------------------------------------------------------------
(* Commands *)

\* A command is a list of tokens; a token is a list of string pieces, so
\* that a version (a list of characters) can be part of a token.
git_add(build_filename) == << <<"git">>, <<"add">>, <<build_filename>> >>

\* VERSION_BUMP_COMMIT_TEMPLATE % {'version': v, 'auditors': a}
commit_message(v, a) ==
    <<"Auto-bump version to ">> \o v
        \o <<"\n\nTest plan:\n- fingers crossed\n\nAuditors: ">> \o a
        \o <<"\n">>

git_commit(v, a) == << <<"git">>, <<"commit">>, <<"-m">>, commit_message(v, a) >>

\* make_tag: ['git', 'tag', f'v{version}']
git_tag(v) == << <<"git">>, <<"tag">>, <<"v">> \o v >>

\* git_push without the push of the tags.
git_push_commits_only == << << <<"git">>, <<"push">> >> >>

\* git_push: the two commands it runs, in order.
git_push == << << <<"git">>, <<"push">> >>,
               << <<"git">>, <<"push">>, <<"--tags">> >> >>

\* do_publish
gradlew_publish == << <<"./gradlew">>, <<"publish">> >>

\* compute_next_version incrementing the first component.
compute_next_version_bumps_first(v) ==
    LET version_i == version_ints(v)
        bumped == [version_i EXCEPT ![1] = @ + 1]
    IN  join([k \in 1..Len(bumped) |-> str(bumped[k])], ".")
            \o <<"-", "p", "r", "e", "1">>

\* compute_next_version without the increment.
compute_next_version_no_bump(v) ==
    LET version_i == version_ints(v)
    IN  join([k \in 1..Len(version_i) |-> str(version_i[k])], ".")
            \o <<"-", "p", "r", "e", "1">>

\* next_version of do_release.
compute_next_version(v) ==
    LET version_i == version_ints(v)
        bumped == [version_i EXCEPT ![Len(version_i)] = @ + 1]
    IN  join([k \in 1..Len(bumped) |-> str(bumped[k])], ".")
            \o <<"-", "p", "r", "e", "1">>

-----------------------------------------------------------------------------
(* Inputs: command lines and working trees *)

V_0_1_9 == <<"0", ".", "1", ".", "9">>
V_0_1_10 == <<"0", ".", "1", ".", "1", "0">>
V_0_2 == <<"0", ".", "2">>
V_0_2_0 == <<"0", ".", "2", ".", "0">>
V_0_2_0_pre3 == <<"0", ".", "2", ".", "0", "-", "p", "r", "e", "3">>
V_0_1_10_pre2 == <<"0", ".", "1", ".", "1", "0", "-", "p", "r", "e", "2">>
V_0_x == <<"0", ".", "x">>
V_7 == <<"7">>

\* The version argument of the command line.
Targets == {V_0_1_9, V_0_1_10, V_0_2, V_0_2_0, V_0_1_10_pre2, V_0_x}

\* The --auditors argument of the command line.
Auditors == {<<"alice">>, <<"bob,carol">>}

\* Lines of a build.gradle.kts.
version_line(v) == VERSION_PREFIX \o v \o <<QUOTE, NL>>
NAME_LINE == <<"n", "a", "m", "e", " ", "=", " ", "\"", "d", "s", "\"", "\n">>
INDENTED_LINE == <<" ", " ">> \o version_line(V_7)
UNCLOSED_LINE == VERSION_PREFIX \o <<"a", NL>>

\* Contents of a build.gradle.kts.
Plain(v) == NAME_LINE \o version_line(v)
TwoDeclarations(v, w) == version_line(v) \o NAME_LINE \o version_line(w)
WithIndented(v) == version_line(v) \o INDENTED_LINE
WithUnclosed(v) == UNCLOSED_LINE \o version_line(v)
NoFinalNewline(v) == NAME_LINE \o VERSION_PREFIX \o v \o <<QUOTE>>
NoDeclaration == NAME_LINE \o INDENTED_LINE

ROOT == "./build.gradle.kts"
LIB == "./lib/build.gradle.kts"
APP == "./app/build.gradle.kts"
File(n, c) == [name |-> n, contents |-> c]

\* The working trees the script is started on.
Trees ==
    { <<>>,
      <<File(ROOT, Plain(V_0_1_9))>>,
      <<File(ROOT, Plain(V_0_1_9)), File(LIB, TwoDeclarations(V_0_1_9, V_7))>>,
      <<File(ROOT, Plain(V_0_2_0_pre3)), File(LIB, WithIndented(V_0_2_0_pre3))>>,
      <<File(ROOT, WithUnclosed(V_0_1_9))>>,
      <<File(ROOT, NoFinalNewline(V_0_2_0_pre3))>>,
      <<File(ROOT, Plain(V_0_1_9)), File(LIB, Plain(V_0_1_10))>>,
      <<File(ROOT, Plain(V_0_1_9)), File(LIB, NoDeclaration)>>,
      <<File(ROOT, Plain(V_0_1_9)), File(LIB, Plain(V_0_1_10)),
        File(APP, NoDeclaration)>>,
      <<File(ROOT, Plain(V_0_x))>> }

-----------------------------------------------------------------------------
(* The script *)

Init ==
    /\ files \in Trees
    /\ pc = "idle"
    /\ version = <<>>
    /\ auditors = <<>>
    /\ dry_run = FALSE
    /\ next_version = <<>>
    /\ cmd_i = 1
    /\ cmds = <<>>
    /\ out = <<>>
    /\ err = "none"
    /\ runs = 0
    /\ files0 = files
    /\ tagged = <<>>

\* main(): one invocation of the script; do_release is entered with the
\* parsed arguments.  files0 remembers the working tree the run started on.
Main ==
    /\ pc \in {"idle", "done", "error"}
    /\ runs < MaxRuns
    /\ \E v \in Targets, a \in Auditors, d \in BOOLEAN :
          /\ version' = v
          /\ auditors' = a
          /\ dry_run' = d
    /\ runs' = runs + 1
    /\ pc' = "set1"
    /\ next_version' = <<>>
    /\ cmd_i' = 1
    /\ cmds' = <<>>
    /\ out' = <<>>
    /\ err' = "none"
    /\ files0' = files
    /\ UNCHANGED <<files, tagged>>

\* run_command executing the command in dry-run mode too.
run_command_ignores_dry_run(command, n, nextpc) ==
    \E ok \in BOOLEAN :
       /\ cmds' = Append(cmds, [argv |-> command, ok |-> ok])
       /\ out' = out
       /\ IF ~ok
          THEN pc' = "error" /\ err' = "CalledProcessError" /\ cmd_i' = cmd_i
          ELSE /\ err' = err
               /\ IF cmd_i < n
                  THEN pc' = pc /\ cmd_i' = cmd_i + 1
                  ELSE pc' = nextpc /\ cmd_i' = 1

\* run_command without check=True: a nonzero exit status is ignored.
run_command_unchecked(command, n, nextpc) ==
    IF dry_run
    THEN /\ out' = Append(out, [print |-> "Would run", command |-> command])
         /\ cmds' = cmds
         /\ err' = err
         /\ IF cmd_i < n
            THEN pc' = pc /\ cmd_i' = cmd_i + 1
            ELSE pc' = nextpc /\ cmd_i' = 1
    ELSE \E ok \in BOOLEAN :
         /\ cmds' = Append(cmds, [argv |-> command, ok |-> ok])
         /\ out' = out
         /\ err' = err
         /\ IF cmd_i < n
            THEN pc' = pc /\ cmd_i' = cmd_i + 1
            ELSE pc' = nextpc /\ cmd_i' = 1

\* run_command(command, dry_run) as the i-th of n commands of a step: in
\* dry-run mode the command is printed; otherwise it is executed and a
\* nonzero exit status raises CalledProcessError.
run_command(command, n, nextpc) ==
    IF dry_run
    THEN /\ out' = Append(out, [print |-> "Would run", command |-> command])
         /\ cmds' = cmds
         /\ err' = err
         /\ IF cmd_i < n
            THEN pc' = pc /\ cmd_i' = cmd_i + 1
            ELSE pc' = nextpc /\ cmd_i' = 1
    ELSE \E ok \in BOOLEAN :
         /\ cmds' = Append(cmds, [argv |-> command, ok |-> ok])
         /\ out' = out
         /\ IF ~ok
            THEN pc' = "error" /\ err' = "CalledProcessError"
                 /\ cmd_i' = cmd_i
            ELSE /\ err' = err
                 /\ IF cmd_i < n
                    THEN pc' = pc /\ cmd_i' = cmd_i + 1
                    ELSE pc' = nextpc /\ cmd_i' = 1

\* The call of set_version at a step of do_release.
call_set_version(v, nextpc) ==
    LET r == set_version(files, v, dry_run)
    IN  /\ files' = r.files
        /\ out' = out \o r.out
        /\ err' = r.err
        /\ pc' = IF r.err = "none" THEN nextpc ELSE "error"
        /\ UNCHANGED <<cmd_i, cmds>>

\* do_release line 158
SetVersion1 ==
    /\ pc = "set1"
    /\ call_set_version(version, "add1")
    /\ UNCHANGED <<version, auditors, dry_run, next_version, runs, files0,
                   tagged>>

\* commit_version_bump, the git add loop (line 159)
GitAdd1 ==
    /\ pc = "add1"
    /\ run_command(git_add(build_filenames(files)[cmd_i]), Len(files),
                   "commit1")
    /\ UNCHANGED <<files, version, auditors, dry_run, next_version, runs,
                   files0, tagged>>

\* commit_version_bump, git commit (line 159)
GitCommit1 ==
    /\ pc = "commit1"
    /\ run_command(git_commit(version, auditors), 1, "tag")
    /\ UNCHANGED <<files, version, auditors, dry_run, next_version, runs,
                   files0, tagged>>

\* make_tag (line 160); tagged records the versions git tag was run for.
MakeTag ==
    /\ pc = "tag"
    /\ run_command(git_tag(version), 1, "push1")
    /\ tagged' = IF dry_run THEN tagged ELSE Append(tagged, version)
    /\ UNCHANGED <<files, version, auditors, dry_run, next_version, runs,
                   files0>>

\* git_push (line 161)
GitPush1 ==
    /\ pc = "push1"
    /\ run_command(git_push[cmd_i], Len(git_push), "publish")
    /\ UNCHANGED <<files, version, auditors, dry_run, next_version, runs,
                   files0, tagged>>

\* do_publish (line 162)
DoPublish ==
    /\ pc = "publish"
    /\ run_command(gradlew_publish, 1, "set2")
    /\ UNCHANGED <<files, version, auditors, dry_run, next_version, runs,
                   files0, tagged>>

\* do_release lines 164-168: next_version is computed and set.
SetVersion2 ==
    /\ pc = "set2"
    /\ next_version' = compute_next_version(version)
    /\ call_set_version(compute_next_version(version), "add2")
    /\ UNCHANGED <<version, auditors, dry_run, runs, files0, tagged>>

\* commit_version_bump, the git add loop (line 169)
GitAdd2 ==
    /\ pc = "add2"
    /\ run_command(git_add(build_filenames(files)[cmd_i]), Len(files),
                   "commit2")
    /\ UNCHANGED <<files, version, auditors, dry_run, next_version, runs,
                   files0, tagged>>

\* commit_version_bump, git commit (line 169)
GitCommit2 ==
    /\ pc = "commit2"
    /\ run_command(git_commit(next_version, auditors), 1, "push2")
    /\ UNCHANGED <<files, version, auditors, dry_run, next_version, runs,
                   files0, tagged>>

\* git_push (line 170), after which do_release returns.
GitPush2 ==
    /\ pc = "push2"
    /\ run_command(git_push[cmd_i], Len(git_push), "done")
    /\ UNCHANGED <<files, version, auditors, dry_run, next_version, runs,
                   files0, tagged>>

Next ==
    \/ Main
    \/ SetVersion1
    \/ GitAdd1
    \/ GitCommit1
    \/ MakeTag
    \/ GitPush1
    \/ DoPublish
    \/ SetVersion2
    \/ GitAdd2
    \/ GitCommit2
    \/ GitPush2

Spec == Init /\ [][Next]_vars

-----------------------------------------------------------------------------
(* Properties *)

\* Every build file of the tree declares version v.
Declares(tree, v) ==
    \A k \in 1..Len(tree) :
        /\ ~get_version_raises(tree[k].contents)
        /\ get_version_from_build(tree[k].contents) = v

\* Every build file of the tree declares some version.
AllDeclare(tree) ==
    \A k \in 1..Len(tree) : ~get_version_raises(tree[k].contents)

\* a precedes b in the lexicographic order of integer tuples.
LexLess(a, b) ==
    \E i \in 1..Len(b) :
        /\ i <= Len(a) + 1
        /\ \A j \in 1..(i - 1) : a[j] = b[j]
        /\ (i = Len(a) + 1 \/ a[i] < b[i])

\* The version carries a pre-release suffix.
HasSuffix(v) ==
    \E i \in 1..Len(v) :
        /\ i + 3 <= Len(v)
        /\ v[i] = "-" /\ v[i + 1] = "p" /\ v[i + 2] = "r" /\ v[i + 3] = "e"

\* The monotonic-increase policy.
IncreaseAllowed(old, new) ==
    IF HasSuffix(old)
    THEN version_ints(old) = version_ints(new)
            \/ LexLess(version_ints(old), version_ints(new))
    ELSE LexLess(version_ints(old), version_ints(new))

\* The commands of the executed log, without their exit status.
Issued == [k \in 1..Len(cmds) |-> cmds[k].argv]

IsPrefixOf(a, b) == Len(a) <= Len(b) /\ a = SubSeq(b, 1, Len(a))

\* The number of entries of the executed log that are the command c.
Count(c) == Cardinality({k \in 1..Len(cmds) : cmds[k].argv = c})

GitPushCmd == << <<"git">>, <<"push">> >>
GitPushTagsCmd == << <<"git">>, <<"push">>, <<"--tags">> >>

\* The commands of steps 1 to 5 for the tree the run started on.
FirstHalf ==
    [k \in 1..Len(files0) |-> << <<"git">>, <<"add">>, <<files0[k].name>> >>]
    \o << << <<"git">>, <<"commit">>, <<"-m">>,
             <<"Auto-bump version to ">> \o version
                \o <<"\n\nTest plan:\n- fingers crossed\n\nAuditors: ">>
                \o auditors \o <<"\n">> >>,
          << <<"git">>, <<"tag">>, <<"v">> \o version >>,
          GitPushCmd,
          GitPushTagsCmd,
          << <<"./gradlew">>, <<"publish">> >> >>

\* The commands of steps 7 to 9 when the pre-release version is nv.
SecondHalf(nv) ==
    [k \in 1..Len(files0) |-> << <<"git">>, <<"add">>, <<files0[k].name>> >>]
    \o << << <<"git">>, <<"commit">>, <<"-m">>,
             <<"Auto-bump version to ">> \o nv
                \o <<"\n\nTest plan:\n- fingers crossed\n\nAuditors: ">>
                \o auditors \o <<"\n">> >>,
          GitPushCmd,
          GitPushTagsCmd >>

\* The number of commands that have succeeded when the run is at a step.
Position ==
    LET n == Len(files0)
    IN  CASE pc = "set1" -> 0
          [] pc = "add1" -> cmd_i - 1
          [] pc = "commit1" -> n
          [] pc = "tag" -> n + 1
          [] pc = "push1" -> n + 2 + (cmd_i - 1)
          [] pc = "publish" -> n + 4
          [] pc = "set2" -> n + 5
          [] pc = "add2" -> n + 5 + (cmd_i - 1)
          [] pc = "commit2" -> 2 * n + 5
          [] pc = "push2" -> 2 * n + 6 + (cmd_i - 1)
          [] pc = "done" -> 2 * n + 8

\* C1: in dry-run mode a run, completed or aborted, leaves every build file
\* as it was when the run started and executes no external command.
C1_DryRunReadOnly ==
    dry_run => (files = files0 /\ cmds = <<>>)

\* C1 witness: a dry run has gone through all nine steps, printing only.
C1_Witness ==
    /\ dry_run
    /\ pc = "done"
    /\ Len(out) = 2 * Len(files0) + 8 + 2 * Len(files0)
    /\ Len(files0) >= 2

\* C2, state part: the executed commands are a prefix of the fixed step
\* sequence, every command but a failing last one succeeded, a failure stops
\* the run, and the build files show exactly the version bumps reached.
C2_PrefixState ==
    (runs >= 1 /\ ~dry_run) =>
        LET n1 == Len(files0) + 5
        IN  /\ \A k \in 1..Len(cmds) : (~cmds[k].ok) =>
                    (k = Len(cmds) /\ pc = "error")
            /\ pc # "error" => Len(cmds) = Position
            /\ IsPrefixOf(SubSeq(Issued, 1,
                                 IF Len(cmds) < n1 THEN Len(cmds) ELSE n1),
                          FirstHalf)
            /\ Len(cmds) > n1 =>
                    IsPrefixOf(SubSeq(Issued, n1 + 1, Len(cmds)),
                               SecondHalf(compute_next_version(version)))
            /\ (pc = "set1" \/ (pc = "error" /\ cmds = <<>>)) =>
                    files = files0
            /\ (pc \in {"add1", "commit1", "tag", "push1", "publish", "set2"}
                  \/ (pc = "error" /\ cmds # <<>> /\ Len(cmds) <= n1)) =>
                    Declares(files, version)
            /\ (pc \in {"add2", "commit2", "push2", "done"}
                  \/ (pc = "error" /\ Len(cmds) > n1)) =>
                    Declares(files, compute_next_version(version))

\* C2: the side effects of a non-dry-run release form a prefix of the fixed
\* step sequence; the first failing step is the last action of the run (the
\* only step out of a failed run is a new invocation), nothing is retried
\* and nothing is undone.
C2_StepPrefix ==
    /\ []C2_PrefixState
    /\ [][pc = "error" => (runs' = runs + 1 /\ files' = files)]_vars

\* C2 witness: publish failed; the tag and the pushes were issued and the
\* build files still declare the target version.
C2_Witness ==
    /\ ~dry_run
    /\ pc = "error"
    /\ Len(cmds) = Len(files0) + 5
    /\ cmds[Len(cmds)].argv = << <<"./gradlew">>, <<"publish">> >>
    /\ ~cmds[Len(cmds)].ok
    /\ Declares(files, version)
    /\ files # files0

\* C3: when the build files declare a single version old, set_version(new)
\* is accepted iff the monotonic-increase policy allows old -> new (<= on
\* the tuples when old has a pre-release suffix, < otherwise), and fails
\* with InvalidVersionError, writing nothing, when it does not.
C3_IncreasePolicy ==
    [][(/\ pc \in {"set1", "set2"}
        /\ Len(files) >= 1
        /\ AllDeclare(files)
        /\ Declares(files, get_version_from_build(files[1].contents))
        /\ ~version_ints_raises(get_version_from_build(files[1].contents))
        /\ ~version_ints_raises(IF pc = "set1" THEN version
                                ELSE next_version'))
       => LET old == get_version_from_build(files[1].contents)
              new == IF pc = "set1" THEN version ELSE next_version'
          IN  IF IncreaseAllowed(old, new)
              THEN pc' \in {"add1", "add2"} /\ err' = "none"
              ELSE /\ pc' = "error"
                   /\ err' = "InvalidVersionError"
                   /\ files' = files]_vars

\* C3 witness: a released version was requested again and rejected.
C3_Witness ==
    /\ pc = "error"
    /\ err = "InvalidVersionError"
    /\ cmds = <<>>
    /\ Len(files) >= 1
    /\ Declares(files, version)
    /\ ~HasSuffix(version)

\* The build files of the tree all declare a version, and not the same one.
Disagree(tree) ==
    /\ AllDeclare(tree)
    /\ \E j, k \in 1..Len(tree) :
          get_version_from_build(tree[j].contents)
             # get_version_from_build(tree[k].contents)

\* C4: a run started on build files that disagree on the current version
\* fails in set_version with InvalidVersionError; no build file is written
\* and no external command is issued.
C4_InconsistentRejected ==
    (runs >= 1 /\ Disagree(files0)) =>
        /\ pc \in {"set1", "error"}
        /\ pc = "error" => err = "InvalidVersionError"
        /\ files = files0
        /\ cmds = <<>>

\* C4 witness: a non-dry run was rejected on disagreeing build files.
C4_Witness ==
    /\ pc = "error"
    /\ ~dry_run
    /\ Disagree(files0)
    /\ err = "InvalidVersionError"
    /\ ~version_ints_raises(version)

\* C5 as stated: in a completed release git push --tags was issued exactly
\* once and the last command is git push.
C5_FinalPushCommitsOnly ==
    (pc = "done" /\ ~dry_run) =>
        /\ Count(GitPushTagsCmd) = 1
        /\ cmds[Len(cmds)].argv = GitPushCmd

\* C5 amended: the final push issues git push and then git push --tags, as
\* the push of step 4 does, so that a completed release has issued
\* git push --tags exactly twice; git tag is issued once, before both.
C5_FinalPushAlsoPushesTags ==
    (pc = "done" /\ ~dry_run) =>
        /\ Count(GitPushTagsCmd) = 2
        /\ Count(GitPushCmd) = 2
        /\ cmds[Len(cmds) - 1].argv = GitPushCmd
        /\ cmds[Len(cmds)].argv = GitPushTagsCmd
        /\ cmds[Len(cmds) - 2].argv[2] = <<"commit">>
        /\ Count(<< <<"git">>, <<"tag">>, <<"v">> \o version >>) = 1
        /\ \A k \in 1..Len(cmds) :
              cmds[k].argv[2] = <<"tag">> => k = Len(files0) + 2

\* C5 witness: a non-dry-run release has completed.
C5_Witness ==
    /\ pc = "done"
    /\ ~dry_run
    /\ Len(cmds) = 2 * Len(files0) + 8

\* The index of the line of the contents that discovery reads.
DeclarationLine(contents) ==
    LET lines == readlines(contents)
    IN  CHOOSE i \in 1..Len(lines) :
            /\ VERSION_RE_search(lines[i]) # 0
            /\ \A j \in 1..(i - 1) : VERSION_RE_search(lines[j]) = 0

\* after is before with the version of its declaration line replaced by v
\* and every other line unchanged.
OnlyDeclarationRewritten(before, after, v) ==
    LET lb == readlines(before)
        la == readlines(after)
        m == DeclarationLine(before)
    IN  /\ Len(la) = Len(lb)
        /\ \A j \in 1..Len(lb) : j # m => la[j] = lb[j]
        /\ la[m] = VERSION_PREFIX \o v
                      \o SubSeq(lb[m], VERSION_RE_match(lb[m], 1), Len(lb[m]))

\* C6 as stated: after a successful non-dry-run set_version(target) each
\* build file differs from what it was only in the version of the
\* declaration line that discovery reads.
C6_OnlyDeclarationLineRewritten ==
    (~dry_run /\ pc \in {"add1", "commit1", "tag", "push1", "publish", "set2"})
        => \A k \in 1..Len(files0) :
              /\ files[k].name = files0[k].name
              /\ OnlyDeclarationRewritten(files0[k].contents,
                                          files[k].contents, version)

\* d is the decimal numeral of the natural number n, without sign or
\* leading zeros.
Numeral(d, n) ==
    /\ d # <<>>
    /\ \A k \in 1..Len(d) : IsDigit(d[k])
    /\ (Len(d) = 1 \/ d[1] # "0")
    /\ DigitsValue(d) = n

\* nv is the numeric tuple of v with its last component incremented by
\* one, joined with "." and followed by -pre1.
IsNextOf(nv, v) ==
    LET t == version_ints(v)
        num == SubSeq(nv, 1, Len(nv) - 5)
        parts == split(num, ".")
    IN  /\ Len(nv) > 5
        /\ SubSeq(nv, Len(nv) - 4, Len(nv)) = <<"-", "p", "r", "e", "1">>
        /\ Len(parts) = Len(t)
        /\ \A k \in 1..(Len(t) - 1) : Numeral(parts[k], t[k])
        /\ Numeral(parts[Len(t)], t[Len(t)] + 1)

\* C7: the version passed to the second set_version and the second commit is
\* the target's numeric tuple, suffix dropped, last component plus one,
\* joined with "." and followed by -pre1 (0.1.10 gives 0.1.11-pre1); after
\* a complete non-dry-run release every build file declares it.
C7_NextVersion ==
    (runs >= 1 /\ pc \in {"add2", "commit2", "push2", "done"}) =>
        /\ IsNextOf(next_version, version)
        /\ version = V_0_1_10 =>
              next_version = <<"0", ".", "1", ".", "1", "1",
                               "-", "p", "r", "e", "1">>
        /\ (~dry_run /\ pc \in {"push2", "done"}) =>
              Issued[2 * Len(files0) + 6] =
                 << <<"git">>, <<"commit">>, <<"-m">>,
                    <<"Auto-bump version to ">> \o next_version
                       \o <<"\n\nTest plan:\n- fingers crossed\n\nAuditors: ">>
                       \o auditors \o <<"\n">> >>
        /\ ~dry_run => (Len(files) >= 1 /\ Declares(files, next_version))

\* C7 witness: the release of 0.1.10 has completed.
C7_Witness ==
    /\ pc = "done"
    /\ ~dry_run
    /\ version = V_0_1_10
    /\ Len(files) >= 1
    /\ Declares(files, <<"0", ".", "1", ".", "1", "1", "-", "p", "r", "e", "1">>)

\* C8: discovery right after a successful non-dry-run set_version(x) finds
\* the same build files, each declaring exactly x.
C8_RoundTrip ==
    [][(pc \in {"set1", "set2"} /\ ~dry_run /\ pc' # "error") =>
          LET x == IF pc = "set1" THEN version ELSE next_version'
          IN  /\ build_filenames(files') = build_filenames(files)
              /\ Len(files') >= 1
              /\ \A k \in 1..Len(files') :
                    /\ ~get_version_raises(files'[k].contents)
                    /\ get_version_from_build(files'[k].contents) = x]_vars

\* C8 witness: set_version has rewritten two build files, one of which had
\* two declarations, and both now declare the target.
C8_Witness ==
    /\ pc = "add1"
    /\ ~dry_run
    /\ Len(files) = 2
    /\ files0[2].contents = TwoDeclarations(V_0_1_9, V_7)
    /\ files # files0
    /\ get_version_from_build(files[1].contents) = version
    /\ get_version_from_build(files[2].contents) = version

\* C9, state part: a version tagged after a released (suffix-free) tagged
\* version has a strictly greater numeric tuple.
C9_TagsIncrease ==
    \A i, j \in 1..Len(tagged) :
        (i < j /\ ~HasSuffix(tagged[i])) =>
            LexLess(version_ints(tagged[i]), version_ints(tagged[j]))

\* C9: over successive non-dry-run releases of the same working tree no
\* released version is tagged again, and a run whose target is a suffix-free
\* version that was the last one tagged, or that the build files already
\* declare, is rejected by set_version with InvalidVersionError.
C9_NoReRelease ==
    /\ []C9_TagsIncrease
    /\ [][(/\ pc = "set1"
           /\ ~version_ints_raises(version)
           /\ ~HasSuffix(version)
           /\ \/ (Len(files) >= 1 /\ Declares(files, version))
              \/ (tagged # <<>> /\ tagged[Len(tagged)] = version))
          => (pc' = "error" /\ err' = "InvalidVersionError"
                /\ tagged' = tagged)]_vars

\* C9 witness: two releases were tagged on the same working tree.
C9_Witness ==
    /\ Len(tagged) >= 2
    /\ ~HasSuffix(tagged[1])
    /\ ~HasSuffix(tagged[2])

\* A run that ended with an error other than a failed command has issued
\* and printed nothing and left the build files alone: the error came from
\* the first set_version.
OnlyStepOneRejects ==
    (pc = "error" /\ err # "CalledProcessError") =>
        (cmds = <<>> /\ out = <<>> /\ files = files0)

\* C10: once the first set_version of a run has passed, the second one is
\* never rejected, in dry-run mode (build files untouched) as in non-dry-run
\* mode (build files rewritten to the pre-release version), so that after
\* step 1 only a failing external command can abort the run.
C10_SecondSetVersionPasses ==
    /\ []OnlyStepOneRejects
    /\ [][pc = "set2" =>
            /\ pc' = "add2"
            /\ err' = "none"
            /\ IF dry_run THEN files' = files
               ELSE Declares(files', next_version')]_vars

\* C10 witness: in dry-run mode the second set_version has passed on build
\* files that still declare the original version.
C10_Witness ==
    /\ dry_run
    /\ pc = "add2"
    /\ files = files0
    /\ Len(files) >= 1
    /\ ~Declares(files, version)
    /\ err = "none"

====
